---------------------------- MODULE Spec2Model ----------------------------
(***************************************************************************)
(* A model of the dialogue-to-audio and daily-report text pipeline of the  *)
(* file conversion API (src/api.py, src/utils.py).                          *)
(*                                                                         *)
(* Text is a sequence of one-character strings.  The non-ASCII characters  *)
(* of the source are written with ASCII stand-ins:                         *)
(*     "F" = 女   "M" = 男   "S" = 生   "C" = ： (full-width colon)          *)
(*     "nian" = 年   "yue" = 月   "ri" = 日   "hao" = 号                     *)
(*     "w1" .. "w6" = 一 二 三 四 五 六 (the weekday characters; 日 is "ri") *)
(*     "[" = （   "]" = ）   (full-width parentheses)                       *)
(*     "x", "y" = ordinary text characters (你, 好, ...)                    *)
(*     "~" = the backtick                                                  *)
(* "\\" is the backslash character.                                         *)
(***************************************************************************)
EXTENDS Integers, Sequences, FiniteSets, TLC

VARIABLES
    dlgDoc,     \* SpecDialogue: the script whose text split_dialogue is given
    dlgOut,     \* SpecDialogue: what split_dialogue returned, once it ran
    dateTok,    \* SpecDate: the token handed to normalize_date
    nowYear,    \* SpecDate: datetime.now().year of the process clock
    dateOut,    \* SpecDate: what normalize_date returned, once it ran
    mdText,     \* SpecMarkdown: the text handed to clean_markdown
    mdOut,      \* SpecMarkdown: what clean_markdown returned, once it ran
    rptDoc,     \* SpecReport: the daily report that was uploaded
    rpt,        \* SpecReport: the state of the analyze_daily_report call
    concatIn,   \* SpecConcat: the clips handed to concat_audios
    concatOut,  \* SpecConcat: how the call of concat_audios ended
    secDoc,     \* SpecSections: the document given to split_daily_report_by_date
    secOut,     \* SpecSections: what split_daily_report_by_date returned
    files,      \* SpecStore: the files collection, id -> record
    disk,       \* SpecStore: the paths of the files on the local disk
    clock,      \* SpecStore: the number of ids and uuids handed out
    acked,      \* SpecStore: the uploads and deletions answered with success
    lastResponse, \* SpecStore: the request handled last and its response
    db,         \* Spec: file_id -> the record of an uploaded file
    tempFs,     \* Spec: temp clip path -> the clip file at audio_files/temp_*
    audioFs,    \* Spec: the output tracks written under audio_files/
    dbAudio,    \* Spec: the audio records created in the database
    inv         \* Spec: invocation -> state of its convert_docx_to_audio call

pipelineVars == <<db, tempFs, audioFs, dbAudio, inv>>
markdownVars == <<mdText, mdOut>>
reportVars == <<rptDoc, rpt>>
textVars == <<dlgDoc, dlgOut, dateTok, nowYear, dateOut, markdownVars, reportVars>>
concatVars == <<concatIn, concatOut>>
sectionVars == <<secDoc, secOut>>
storeVars == <<files, disk, clock, acked, lastResponse>>
serviceVars == <<concatVars, sectionVars, storeVars>>
vars == <<textVars, pipelineVars, serviceVars>>

\* the result of a function that has not been applied yet
NotRun == [ran |-> FALSE, value |-> <<>>]
Result(v) == [ran |-> TRUE, value |-> v]

-----------------------------------------------------------------------------
(* Characters and small helpers on text                                    *)

BS == "\\"
BT == "~"
Whitespace == {" ", "\n"}

\* s[a..b] with Python's clamping of an empty range
Slice(s, a, b) == IF a > b THEN <<>> ELSE SubSeq(s, a, b)

RECURSIVE LStrip(_)
LStrip(s) ==
    IF s # <<>> /\ Head(s) \in Whitespace THEN LStrip(Tail(s)) ELSE s

RECURSIVE RStrip(_)
RStrip(s) ==
    IF s # <<>> /\ s[Len(s)] \in Whitespace
    THEN RStrip(SubSeq(s, 1, Len(s) - 1))
    ELSE s

\* str.strip()
Strip(s) == RStrip(LStrip(s))

\* the number of consecutive characters of the set cs in s from position i on
RECURSIVE RunLen(_, _, _)
RunLen(s, i, cs) ==
    IF i <= Len(s) /\ s[i] \in cs THEN 1 + RunLen(s, i + 1, cs) ELSE 0

-----------------------------------------------------------------------------
(* utils.split_dialogue                                                    *)

\* The pattern of split_dialogue, r"\\*\\*([男女]生)[：:]\\*\\*": in a raw
\* string \\ is an escaped backslash and * its repetition, so the pattern is
\*   backslash* backslash* [男女] 生 [：:] backslash* backslash*
\* DialogueMatchAt is the end (exclusive, 1-based) of the match that starts
\* at position s, or 0 when the pattern does not match there.
DialogueMatchAt(text, s) ==
    LET j == s + RunLen(text, s, {BS})
    IN  IF /\ j + 2 <= Len(text)
           /\ text[j] \in {"M", "F"}
           /\ text[j + 1] = "S"
           /\ text[j + 2] \in {"C", ":"}
        THEN j + 3 + RunLen(text, j + 3, {BS})
        ELSE 0

\* group(0) of the match that starts at s: the whole match
DialogueGroup0(text, s) == SubSeq(text, s, DialogueMatchAt(text, s) - 1)

\* group(1) of the match that starts at s
DialogueGroup1(text, s) ==
    LET j == s + RunLen(text, s, {BS}) IN SubSeq(text, j, j + 1)

\* re.finditer: the start of the leftmost match at or after pos, 0 for none
RECURSIVE DialogueFind(_, _)
DialogueFind(text, pos) ==
    IF pos > Len(text) THEN 0
    ELSE IF DialogueMatchAt(text, pos) # 0 THEN pos
    ELSE DialogueFind(text, pos + 1)

\* the loop of split_dialogue from search position pos on; last_pos is the
\* 1-based position after the previous match, last_speaker <<>> for None
RECURSIVE SplitLoop(_, _, _, _, _)
SplitLoop(text, pos, last_pos, last_speaker, segments) ==
    LET s == DialogueFind(text, pos) IN
    IF s = 0
    THEN IF last_speaker # <<>>
         THEN LET content == Strip(Slice(text, last_pos, Len(text)))
              IN  IF content # <<>>
                  THEN Append(segments, <<last_speaker, content>>)
                  ELSE segments
         ELSE segments
    ELSE LET e == DialogueMatchAt(text, s)
             content == Strip(Slice(text, last_pos, s - 1))
             segs == IF last_speaker # <<>> /\ content # <<>>
                     THEN Append(segments, <<last_speaker, content>>)
                     ELSE segments
         IN  SplitLoop(text, e, e, DialogueGroup1(text, s), segs)

split_dialogue(text) == SplitLoop(text, 1, 1, <<>>, <<>>)

-----------------------------------------------------------------------------
(* utils.clean_markdown                                                    *)

\* re.sub of the alternation (two asterisks, one asterisk, two underscores,
\* one backtick) by the empty string: scanning left to right every asterisk
\* and every backtick goes, and so does every pair of underscores; a single
\* underscore stays.
RECURSIVE clean_markdown(_)
clean_markdown(text) ==
    IF text = <<>> THEN <<>>
    ELSE IF Head(text) \in {"*", BT} THEN clean_markdown(Tail(text))
    ELSE IF Len(text) >= 2 /\ text[1] = "_" /\ text[2] = "_"
         THEN clean_markdown(SubSeq(text, 3, Len(text)))
    ELSE <<Head(text)>> \o clean_markdown(Tail(text))

-----------------------------------------------------------------------------
(* A matcher for the regular expressions of normalize_date                 *)

Digit == {"0", "1", "2", "3", "4", "5", "6", "7", "8", "9"}

\* A pattern is a sequence of items; an item matches between lo and hi
\* characters, each of them a character of cs or, where any = TRUE, a
\* character that is not in cs (the regex dot is every character but the
\* newline).
Item(cs, lo, hi) == [any |-> FALSE, cs |-> cs, lo |-> lo, hi |-> hi]
\* a negated class [^...]: any character that is not in cs
NoneOf(cs, lo, hi) == [any |-> TRUE, cs |-> cs, lo |-> lo, hi |-> hi]
AnyChar == NoneOf({"\n"}, 1, 1)

ItemAccepts(item, ch) == IF item.any THEN ch \notin item.cs ELSE ch \in item.cs

\* the positions after the matches of items that start at position i of s
RECURSIVE MatchEnds(_, _, _)
MatchEnds(s, i, items) ==
    IF items = <<>> THEN {i}
    ELSE LET it == Head(items)
             Run(n) == \A k \in 0..(n - 1) :
                           i + k <= Len(s) /\ ItemAccepts(it, s[i + k])
         IN  UNION { MatchEnds(s, i + n, Tail(items)) :
                         n \in { n \in it.lo..it.hi : Run(n) } }

\* re.match(r"^...$", s): $ matches at the end and before a final newline
FullMatch(s, items) ==
    LET ends == MatchEnds(s, 1, items)
    IN  \/ Len(s) + 1 \in ends
        \/ Len(s) >= 1 /\ s[Len(s)] = "\n" /\ Len(s) \in ends

\* r"^\\d{4}\\.\\d{1,2}\\.\\d{1,2}$": in a raw string \\ is an escaped
\* backslash, so d is the letter d and . the regex dot:
\*   backslash dddd backslash <any> backslash d{1,2} backslash <any>
\*   backslash d{1,2}
DotDatePattern ==
    << Item({BS}, 1, 1), Item({"d"}, 4, 4), Item({BS}, 1, 1), AnyChar,
       Item({BS}, 1, 1), Item({"d"}, 1, 2), Item({BS}, 1, 1), AnyChar,
       Item({BS}, 1, 1), Item({"d"}, 1, 2) >>

\* r"^\\d{1,2}-\\d{1,2}$": backslash d{1,2} - backslash d{1,2}
NoYearPattern ==
    << Item({BS}, 1, 1), Item({"d"}, 1, 2), Item({"-"}, 1, 1),
       Item({BS}, 1, 1), Item({"d"}, 1, 2) >>

-----------------------------------------------------------------------------
(* utils.normalize_date                                                    *)

DigitVal(c) ==
    CASE c = "0" -> 0 [] c = "1" -> 1 [] c = "2" -> 2 [] c = "3" -> 3
      [] c = "4" -> 4 [] c = "5" -> 5 [] c = "6" -> 6 [] c = "7" -> 7
      [] c = "8" -> 8 [] c = "9" -> 9

DigitChar(n) ==
    CASE n = 0 -> "0" [] n = 1 -> "1" [] n = 2 -> "2" [] n = 3 -> "3"
      [] n = 4 -> "4" [] n = 5 -> "5" [] n = 6 -> "6" [] n = 7 -> "7"
      [] n = 8 -> "8" [] n = 9 -> "9"

\* int() of a string of digits
RECURSIVE ToNat(_)
ToNat(ds) ==
    IF ds = <<>> THEN 0
    ELSE 10 * ToNat(SubSeq(ds, 1, Len(ds) - 1)) + DigitVal(ds[Len(ds)])

\* str() of a natural number
RECURSIVE ToStr(_)
ToStr(n) ==
    IF n < 10 THEN <<DigitChar(n)>> ELSE ToStr(n \div 10) \o <<DigitChar(n % 10)>>

\* the number as at least w digits, zero-padded (%m, %d, %Y of strftime)
RECURSIVE Pad(_, _)
Pad(ds, w) == IF Len(ds) >= w THEN ds ELSE Pad(<<"0">> \o ds, w)

\* str.replace(old, new) for a one-character old
RECURSIVE Replace(_, _, _)
Replace(s, old, new) ==
    IF s = <<>> THEN <<>>
    ELSE (IF Head(s) = old THEN new ELSE <<Head(s)>>) \o Replace(Tail(s), old, new)

WeekdayChars == {"w1", "w2", "w3", "w4", "w5", "w6", "ri"}

\* re.sub of a full-width "(", one weekday character, a full-width ")" by
\* the empty string
RECURSIVE StripWeekday(_)
StripWeekday(s) ==
    IF s = <<>> THEN <<>>
    ELSE IF Len(s) >= 3 /\ s[1] = "[" /\ s[2] \in WeekdayChars /\ s[3] = "]"
         THEN StripWeekday(SubSeq(s, 4, Len(s)))
    ELSE <<Head(s)>> \o StripWeekday(Tail(s))

IsLeap(y) == (y % 4 = 0 /\ y % 100 # 0) \/ y % 400 = 0

DaysInMonth(y, m) ==
    IF m = 2 THEN (IF IsLeap(y) THEN 29 ELSE 28)
    ELSE IF m \in {4, 6, 9, 11} THEN 30 ELSE 31

\* The directives of strptime as _strptime's regular expressions take them,
\* the first alternative that matches at i:
\*   %m  1[0-2] | 0[1-9] | [1-9]
\*   %d  3[01] | [12]\d | 0[1-9] | [1-9] | <space>[1-9]
\* each gives the number of characters taken, 0 for no match
MonthLen(s, i) ==
    LET c1 == IF i <= Len(s) THEN s[i] ELSE ""
        c2 == IF i + 1 <= Len(s) THEN s[i + 1] ELSE ""
    IN  IF c1 = "1" /\ c2 \in {"0", "1", "2"} THEN 2
        ELSE IF c1 = "0" /\ c2 \in Digit \ {"0"} THEN 2
        ELSE IF c1 \in Digit \ {"0"} THEN 1
        ELSE 0

DayLen(s, i) ==
    LET c1 == IF i <= Len(s) THEN s[i] ELSE ""
        c2 == IF i + 1 <= Len(s) THEN s[i + 1] ELSE ""
    IN  IF c1 = "3" /\ c2 \in {"0", "1"} THEN 2
        ELSE IF c1 \in {"1", "2"} /\ c2 \in Digit THEN 2
        ELSE IF c1 = "0" /\ c2 \in Digit \ {"0"} THEN 2
        ELSE IF c1 \in Digit \ {"0"} THEN 1
        ELSE IF c1 = " " /\ c2 \in Digit \ {"0"} THEN 2
        ELSE 0

NoDate == <<>>

\* datetime.strptime(s, "%Y-%m-%d"): <<year, month, day>>, or NoDate where it
\* raises ValueError (no match, unconverted data, no such calendar day)
strptime(s) ==
    IF ~(Len(s) >= 5 /\ (\A k \in 1..4 : s[k] \in Digit) /\ s[5] = "-")
    THEN NoDate
    ELSE LET ml == MonthLen(s, 6) IN
         IF ml = 0 \/ 6 + ml > Len(s) \/ s[6 + ml] # "-" THEN NoDate
         ELSE LET dl == DayLen(s, 7 + ml) IN
              IF dl = 0 \/ 7 + ml + dl # Len(s) + 1 THEN NoDate
              ELSE LET y == ToNat(SubSeq(s, 1, 4))
                       m == ToNat(SubSeq(s, 6, 5 + ml))
                       d == ToNat(Strip(SubSeq(s, 7 + ml, 6 + ml + dl)))
                   IN  IF y >= 1 /\ d <= DaysInMonth(y, m)
                       THEN <<y, m, d>>
                       ELSE NoDate

\* the date written without zero padding
strftime_NoPad(dt) ==
    ToStr(dt[1]) \o <<"-">> \o ToStr(dt[2]) \o <<"-">> \o ToStr(dt[3])

\* dt.strftime("%Y-%m-%d")
strftime(dt) ==
    Pad(ToStr(dt[1]), 4) \o <<"-">> \o Pad(ToStr(dt[2]), 2) \o <<"-">>
    \o Pad(ToStr(dt[3]), 2)

normalize_date(date_str, year) ==
    LET s1 == StripWeekday(date_str)
        s2 == IF FullMatch(s1, DotDatePattern) THEN Replace(s1, ".", <<"-">>) ELSE s1
        s3 == Replace(Replace(Replace(Replace(s2, "nian", <<"-">>), "yue", <<"-">>),
                              "ri", <<>>), "hao", <<>>)
        s4 == Replace(s3, "/", <<"-">>)
        s5 == IF FullMatch(s4, NoYearPattern) THEN ToStr(year) \o <<"-">> \o s4 ELSE s4
        dt == strptime(s5)
    IN  IF dt # NoDate THEN strftime(dt) ELSE s5


-----------------------------------------------------------------------------
(* Dialogue scripts: the inputs of split_dialogue                          *)

MaxMarkers == 2

female == <<"F", "S">>
male == <<"M", "S">>

\* a speaker marker as the docstring of split_dialogue writes it: the role
\* name and a colon (full- or half-width), wrapped in **
Marker(role, colon) == <<"*", "*">> \o role \o <<colon>> \o <<"*", "*">>

\* text that may stand before the first marker or after a marker
PlainContents ==
    { <<"x", "y">>, <<"x", "y", " ">>, <<"x", "y", "x">>, <<" ", "x">>,
      <<"*", "x", "*">> }
BlankContents == { <<>>, <<" ">> }
\* a role label that is not wrapped in **
BareLabelContents == { <<"x", "F", "S", ":", "y">>, <<"M", "S", "C", "y">> }
Contents == PlainContents \cup BlankContents \cup BareLabelContents
Preambles == { <<>>, <<"x", "y", "\n">>, <<"F", "S", ":", "x", " ">> }

Units == [role : {female, male}, colon : {":", "C"}, content : Contents]

Scripts ==
    [pre : Preambles,
     units : UNION { [1..n -> Units] : n \in 0..MaxMarkers }]

RECURSIVE RenderUnits(_)
RenderUnits(us) ==
    IF us = <<>> THEN <<>>
    ELSE Marker(Head(us).role, Head(us).colon) \o Head(us).content
         \o RenderUnits(Tail(us))

\* the text of a script
Render(doc) == doc.pre \o RenderUnits(doc.units)

NonBlank(content) == Strip(content) # <<>>

-----------------------------------------------------------------------------
(* SpecDialogue: split_dialogue applied to every script                    *)

DateIdle == dateTok = <<>> /\ nowYear = 0 /\ dateOut = NotRun
MarkdownIdle == mdText = <<>> /\ mdOut = NotRun
ReportIdle == rptDoc = <<>> /\ rpt = <<>>
ConcatIdle == concatIn = <<>> /\ concatOut = NotRun
SectionIdle == secDoc = <<>> /\ secOut = NotRun
StoreIdle ==
    /\ files = <<>> /\ disk = {} /\ clock = 0 /\ acked = <<>> /\ lastResponse = <<>>
ServiceIdle == ConcatIdle /\ SectionIdle /\ StoreIdle
PipelineIdle ==
    /\ db = <<>> /\ tempFs = <<>> /\ audioFs = <<>> /\ dbAudio = <<>>
    /\ inv = <<>>

InitDialogue ==
    /\ dlgDoc \in Scripts
    /\ dlgOut = NotRun
    /\ DateIdle
    /\ MarkdownIdle
    /\ ReportIdle
    /\ PipelineIdle
    /\ ServiceIdle

SplitDialogue ==
    /\ ~dlgOut.ran
    /\ dlgOut' = Result(split_dialogue(Render(dlgDoc)))
    /\ UNCHANGED <<dlgDoc, dateTok, nowYear, dateOut, markdownVars, reportVars,
                   pipelineVars, serviceVars>>

NextDialogue == SplitDialogue

SpecDialogue == InitDialogue /\ [][NextDialogue]_vars

-----------------------------------------------------------------------------
(* Claims about split_dialogue (SpecDialogue)                              *)

\* a role name followed by a colon somewhere in text
HasRoleLabel(text) ==
    \E i \in 1..Len(text) :
        /\ i + 2 <= Len(text)
        /\ text[i] \in {"F", "M"} /\ text[i + 1] = "S" /\ text[i + 2] \in {":", "C"}

\* the only role labels of the script are those of its markers
LabelFree(doc) ==
    /\ ~HasRoleLabel(doc.pre)
    /\ \A k \in 1..Len(doc.units) : ~HasRoleLabel(doc.units[k].content)

\* N markers, each followed by content that is not blank
WellFormed(doc) ==
    /\ LabelFree(doc)
    /\ \A k \in 1..Len(doc.units) : NonBlank(doc.units[k].content)

\* "**F S:**xy **M S:**xyx", the script of the end-to-end example
ExampleScript ==
    [pre |-> <<>>,
     units |-> << [role |-> female, colon |-> ":", content |-> <<"x", "y", " ">>],
                  [role |-> male, colon |-> ":", content |-> <<"x", "y", "x">>] >>]

\* C3: every turn split_dialogue returns for a script of wrapped markers is
\* the role of one of the markers with the trimmed text between the end of
\* that whole marker and the start of the next one (or the end of the
\* document), and the example script yields [(F S, xy), (M S, xyx)].
C3_TurnTextBetweenMarkers ==
    (dlgOut.ran /\ LabelFree(dlgDoc)) =>
        /\ \A i \in 1..Len(dlgOut.value) :
               \E k \in 1..Len(dlgDoc.units) :
                   dlgOut.value[i] = <<dlgDoc.units[k].role, Strip(dlgDoc.units[k].content)>>
        /\ dlgDoc = ExampleScript =>
               dlgOut.value = << <<female, <<"x", "y">> >>, <<male, <<"x", "y", "x">> >> >>

\* C4: for a well-formed script with N markers split_dialogue returns N
\* turns, and the speaker of the i-th turn is the role of the i-th marker.
C4_OneTurnPerMarker ==
    (dlgOut.ran /\ WellFormed(dlgDoc)) =>
        /\ Len(dlgOut.value) = Len(dlgDoc.units)
        /\ \A i \in 1..Len(dlgOut.value) : dlgOut.value[i][1] = dlgDoc.units[i].role

\* C4's case: two alternating markers with content, split into two turns
C4_Witness ==
    /\ dlgOut.ran
    /\ WellFormed(dlgDoc)
    /\ Len(dlgDoc.units) = 2
    /\ dlgDoc.units[1].role # dlgDoc.units[2].role
    /\ Len(dlgOut.value) = 2

\* the markers of the script whose content is not blank
SpokenUnits(doc) == SelectSeq(doc.units, LAMBDA u : NonBlank(u.content))

\* C21: a marker whose content up to the next marker (or the end of the
\* document) is empty or blank produces no turn: the turns are those of the
\* markers with content, in order, and no turn has empty text.
C21_BlankTurnsDropped ==
    (dlgOut.ran /\ LabelFree(dlgDoc)) =>
        /\ Len(dlgOut.value) = Len(SpokenUnits(dlgDoc))
        /\ \A i \in 1..Len(dlgOut.value) :
               /\ i <= Len(SpokenUnits(dlgDoc))
                      => dlgOut.value[i][1] = SpokenUnits(dlgDoc)[i].role
               /\ dlgOut.value[i][2] # <<>>

\* C26: a role label with a colon that is not wrapped in ** opens no turn:
\* in a script whose markers all have content, whatever bare labels stand in
\* the text, the turns are those of the wrapped markers.
C26_BareLabelOpensNoTurn ==
    (dlgOut.ran /\ \A k \in 1..Len(dlgDoc.units) : NonBlank(dlgDoc.units[k].content)) =>
        /\ Len(dlgOut.value) = Len(dlgDoc.units)
        /\ \A i \in 1..Len(dlgOut.value) :
               i <= Len(dlgDoc.units) => dlgOut.value[i][1] = dlgDoc.units[i].role

-----------------------------------------------------------------------------
(* Date tokens: the inputs of normalize_date                               *)

YearStrs == { <<"2", "0", "2", "5">>, <<"2", "0", "2", "4">> }
MonthStrs == { <<"7">>, <<"0", "7">>, <<"2">>, <<"1", "2">>, <<"1", "3">> }
DayStrs ==
    { <<"1", "4">>, <<"9">>, <<"0", "9">>, <<"2", "9">>, <<"3", "0">>,
      <<"3", "1">>, <<"3", "2">> }
\* none, a full-width weekday annotation, a half-width one
FullWidthAnnotations == { <<"[", "w1", "]">>, <<"[", "ri", "]">> }
Annotations == { <<>>, <<"(", "w1", ")">> } \cup FullWidthAnnotations
RawStrs ==
    { <<"n", "o", "t", "-", "a", "-", "d", "a", "t", "e">>, <<"T", "B", "D">> }

YearForms == {"dot", "nianyueri", "dash", "slash"}
NoYearForms == {"yueri", "slash_md", "dash_md"}

DateTokens ==
    [form : YearForms, y : YearStrs, m : MonthStrs, d : DayStrs, ann : {<<>>}]
    \cup [form : {"dot"}, y : YearStrs, m : MonthStrs, d : DayStrs, ann : Annotations]
    \cup [form : NoYearForms, y : {<<>>}, m : MonthStrs, d : DayStrs, ann : {<<>>}]
    \cup [form : {"raw"}, y : RawStrs, m : {<<>>}, d : {<<>>}, ann : {<<>>}]

\* the token as it stands in a document
TokenText(t) ==
    CASE t.form = "dot" -> t.y \o <<".">> \o t.m \o <<".">> \o t.d \o t.ann
      [] t.form = "nianyueri" -> t.y \o <<"nian">> \o t.m \o <<"yue">> \o t.d \o <<"ri">>
      [] t.form = "dash" -> t.y \o <<"-">> \o t.m \o <<"-">> \o t.d
      [] t.form = "slash" -> t.y \o <<"/">> \o t.m \o <<"/">> \o t.d
      [] t.form = "yueri" -> t.m \o <<"yue">> \o t.d \o <<"ri">>
      [] t.form = "slash_md" -> t.m \o <<"/">> \o t.d
      [] t.form = "dash_md" -> t.m \o <<"-">> \o t.d
      [] t.form = "raw" -> t.y

NowYears == {2024, 2025}

-----------------------------------------------------------------------------
(* SpecDate: normalize_date applied to every date token                    *)

DialogueIdle == dlgDoc = <<>> /\ dlgOut = NotRun

InitDate ==
    /\ dateTok \in DateTokens
    /\ nowYear \in NowYears
    /\ dateOut = NotRun
    /\ DialogueIdle
    /\ MarkdownIdle
    /\ ReportIdle
    /\ PipelineIdle
    /\ ServiceIdle

NormalizeDate ==
    /\ ~dateOut.ran
    /\ dateOut' = Result(normalize_date(TokenText(dateTok), nowYear))
    /\ UNCHANGED <<dlgDoc, dlgOut, dateTok, nowYear, markdownVars, reportVars,
                   pipelineVars, serviceVars>>

NextDate == NormalizeDate

SpecDate == InitDate /\ [][NextDate]_vars

-----------------------------------------------------------------------------
(* The stored files                                                        *)

Invocations == {"a", "b"}

\* utils.read_docx_text: the paragraphs that are not blank, joined by "\n"
RECURSIVE JoinLines(_)
JoinLines(ps) ==
    IF ps = <<>> THEN <<>>
    ELSE IF Len(ps) = 1 THEN ps[1]
    ELSE ps[1] \o <<"\n">> \o JoinLines(Tail(ps))

read_docx_text(paras) == JoinLines(SelectSeq(paras, NonBlank))

MaxTurns == 3

\* a script of n turns of alternating speakers, one paragraph each, with a
\* blank paragraph at the end
TurnsDoc(n) ==
    [i \in 1..n |->
        IF i % 2 = 1
        THEN Marker(female, "C") \o <<"x", "*", "y", "*">>
        ELSE Marker(male, ":") \o <<"y">>]
    \o << <<" ">> >>

\* the paragraphs of the docx files that may be stored: none, text without
\* a marker, the example script, one marker without content, and scripts
\* of three to MaxTurns turns
StoredDocs ==
    { <<>>,
      << <<"x", "y">> >>,
      << Render(ExampleScript) >>,
      << Marker(female, ":") >> }
    \cup { TurnsDoc(n) : n \in 3..MaxTurns }

\* the files collection: two docx files of any stored content, a pdf, and a
\* docx whose file has gone from the disk; "f0" is the id of no record
Database(d1, d2) ==
    [f \in {"f1", "f2", "f3", "f4"} |->
        [file_type |-> IF f = "f3" THEN "pdf" ELSE "docx",
         on_disk |-> f # "f4",
         filename |-> f,
         paras |-> IF f = "f1" THEN d1 ELSE IF f = "f2" THEN d2 ELSE <<>>]]

FileIdArgs == {"f0", "f1", "f2", "f3", "f4"}

-----------------------------------------------------------------------------
(* api.convert_docx_to_audio                                               *)

NoOutcome == [kind |-> "none", status |-> 0, detail |-> ""]
NoHandle == "none"

IdleInvocation ==
    [pc |-> "idle", outcome |-> NoOutcome, file_id |-> "", segmented |-> FALSE,
     segments |-> <<>>,
     idx |-> 0, temp_audio_paths |-> <<>>, calls |-> <<>>, concat_calls |-> <<>>,
     handle |-> NoHandle, failed_turn |-> -1]

Range(seq) == { seq[i] : i \in 1..Len(seq) }

\* the directory audio_files/ as a function from the paths of its temp
\* clips to the files there
EmptyFs == [path \in {} |-> path]
Remove(fs, paths) == [q \in (DOMAIN fs) \ paths |-> fs[q]]
Put(fs, path, file) == [q \in (DOMAIN fs) \cup {path} |-> IF q = path THEN file ELSE fs[q]]

\* os.path.join("audio_files", f"temp_{file_id}.mp3"): the index left out
TempPathNoIndex(file_id, idx) == <<"temp", file_id>>

\* os.path.join("audio_files", f"temp_{file_id}_{idx}.mp3")
TempPath(file_id, idx) == <<"temp", file_id, idx>>

\* the mapping with the two voices exchanged
ROLE_VOICE_Swapped(role) ==
    IF role = female THEN "zh-CN-YunyangNeural"
    ELSE IF role = male THEN "zh-CN-XiaoyiNeural"
    ELSE "zh-CN-XiaoxiaoNeural"

\* ROLE_VOICE.get(role, "zh-CN-XiaoxiaoNeural")
ROLE_VOICE(role) ==
    IF role = female THEN "zh-CN-XiaoyiNeural"
    ELSE IF role = male THEN "zh-CN-YunyangNeural"
    ELSE "zh-CN-XiaoxiaoNeural"

\* "if not segments" never taken
NoSegmentsNever(segments) == FALSE

\* "if not segments"
NoSegments(segments) == segments = <<>>

\* utils.concat_audios: combined = AudioSegment.empty(), then for each path
\* combined += AudioSegment.from_file(path); the track is the clips loaded, in
\* the order of audio_paths, and lasts as long as they do together
RECURSIVE ConcatFrom(_, _, _)
ConcatFrom(audio_paths, fs, combined) ==
    IF audio_paths = <<>> THEN combined
    ELSE ConcatFrom(Tail(audio_paths), fs,
                    [clips |-> Append(combined.clips, fs[Head(audio_paths)]),
                     duration |-> combined.duration + fs[Head(audio_paths)].dur])

concat_audios(audio_paths, fs) ==
    ConcatFrom(audio_paths, fs, [clips |-> <<>>, duration |-> 0])

\* In the operators below w is the part of the state one step of invocation
\* p works on: w.fs the temp clips, w.out the output tracks, w.me its own
\* state.

\* the finally block: every path of temp_audio_paths that exists is removed
Finally(w) == [w EXCEPT !.fs = Remove(w.fs, Range(w.me.temp_audio_paths))]

\* the handler ends with an exception (or, kind "return", with its response)
Ends(w, kind, status, detail) ==
    [w EXCEPT !.me.pc = "done",
              !.me.outcome = [kind |-> kind, status |-> status, detail |-> detail]]

\* lines 360-369: the output name, concat_audios, the finally block.
\* AudioSegment.from_file raises for a path that is not there; exported says
\* whether decoding and the export went through.
Concat(w, p, exported) ==
    LET audio_paths == w.me.temp_audio_paths
        called == [w EXCEPT !.me.concat_calls = Append(@, audio_paths)]
    IN  IF exported /\ \A i \in 1..Len(audio_paths) : audio_paths[i] \in DOMAIN w.fs
        THEN [Finally(called) EXCEPT
                 !.out = Append(@, [audio_filename |-> <<db[w.me.file_id].filename, Len(w.out) + 1>>,
                                    track |-> concat_audios(audio_paths, w.fs),
                                    by |-> p]),
                 !.me.pc = "saving"]
        ELSE Ends(Finally(called), "Exception", 500, "concat_audios")

\* an adapter error that stops the loop and concatenates the clips so far
OnAdapterErrorPartial(w, p) ==
    Concat([w EXCEPT !.me.failed_turn = w.me.idx, !.me.handle = NoHandle], p, TRUE)

\* text_to_speech_edge_tts raises inside the try: the finally block runs and
\* the exception leaves the handler
OnAdapterError(w, p) ==
    Ends(Finally([w EXCEPT !.me.failed_turn = w.me.idx, !.me.handle = NoHandle]),
         "Exception", 500, "text_to_speech_edge_tts")

\* open(path, "wb") of the adapter: a file that is there is truncated, one
\* that is not is created
OpenForWrite(fs, path, p, text, voice) ==
    IF path \in DOMAIN fs
    THEN Put(fs, path, [fs[path] EXCEPT !.complete = FALSE, !.dur = 0])
    ELSE Put(fs, path, [by |-> p, text |-> text, voice |-> voice,
                        complete |-> FALSE, dur |-> 0])

\* lines 354-357 up to the suspension of the await: the adapter is called
\* and, when opens, gets as far as opening its output file
BeginSynthesis(w, p, opens) ==
    LET seg == w.me.segments[w.me.idx + 1]
        voice == ROLE_VOICE(seg[1])
        clean_content == clean_markdown(seg[2])
        temp_path == TempPath(w.me.file_id, w.me.idx)
        fs1 == IF opens THEN OpenForWrite(w.fs, temp_path, p, clean_content, voice)
               ELSE w.fs
    IN  [w EXCEPT !.fs = fs1,
                  !.me.calls = Append(@, [text |-> clean_content,
                                          output_path |-> temp_path,
                                          voice |-> voice]),
                  !.me.handle = IF opens THEN fs1[temp_path].by ELSE NoHandle,
                  !.me.pc = "awaiting"]

\* the loop head: the next turn, or after the last one the concatenation
LoopStep(w, p, opens, exported) ==
    IF w.me.idx < Len(w.me.segments)
    THEN BeginSynthesis(w, p, opens)
    ELSE Concat(w, p, exported)

\* the await of line 357 returns: the adapter has written the clip through
\* the file it opened (which shows at the path only while the path still
\* names that file), the path is appended, the loop goes on
AwaitReturned(w, p, opens, exported) ==
    LET call == w.me.calls[Len(w.me.calls)]
        path == call.output_path
        fs1 == IF path \in DOMAIN w.fs /\ w.fs[path].by = w.me.handle
               THEN Put(w.fs, path, [w.fs[path] EXCEPT !.complete = TRUE,
                                                       !.dur = Len(call.text)])
               ELSE w.fs
    IN  LoopStep([w EXCEPT !.fs = fs1,
                           !.me.temp_audio_paths = Append(@, path),
                           !.me.idx = @ + 1,
                           !.me.handle = NoHandle],
                 p, opens, exported)

\* lines 332-351: the checks, the text, the segmentation
Enter(w, p, opens, exported) ==
    LET file_id == w.me.file_id IN
    IF file_id \notin DOMAIN db THEN Ends(w, "HTTPException", 404, "file not found")
    ELSE IF db[file_id].file_type # "docx"
         THEN Ends(w, "HTTPException", 400, "docx only")
    ELSE IF ~db[file_id].on_disk
         THEN Ends(w, "HTTPException", 404, "file not on server")
    ELSE LET text == read_docx_text(db[file_id].paras) IN
         IF Strip(text) = <<>> THEN Ends(w, "HTTPException", 400, "docx empty")
         ELSE LET segments == split_dialogue(text)
                  w1 == [w EXCEPT !.me.segmented = TRUE, !.me.segments = segments]
              IN  IF NoSegments(segments)
                  THEN Ends(w1, "HTTPException", 400, "no dialogue detected")
                  ELSE LoopStep(w1, p, opens, exported)

World(p) == [fs |-> tempFs, out |-> audioFs, me |-> inv[p]]

Becomes(p, w) ==
    /\ tempFs' = w.fs
    /\ audioFs' = w.out
    /\ inv' = [inv EXCEPT ![p] = w.me]

\* a request POST /files/convert_to_audio?file_id=... arrives
Invoke(p, file_id, opens, exported) ==
    /\ inv[p].pc = "idle"
    /\ Becomes(p, Enter([World(p) EXCEPT !.me.file_id = file_id], p, opens, exported))
    /\ UNCHANGED <<db, dbAudio, textVars, serviceVars>>

\* the adapter call of the current turn returns
SynthesisReturns(p, opens, exported) ==
    /\ inv[p].pc = "awaiting"
    /\ inv[p].handle # NoHandle
    /\ Becomes(p, AwaitReturned(World(p), p, opens, exported))
    /\ UNCHANGED <<db, dbAudio, textVars, serviceVars>>

\* the adapter call of the current turn raises
SynthesisRaises(p) ==
    /\ inv[p].pc = "awaiting"
    /\ Becomes(p, OnAdapterError(World(p), p))
    /\ UNCHANGED <<db, dbAudio, textVars, serviceVars>>

\* the request is cancelled while the handler is suspended: CancelledError
\* is raised at the await, inside the try (line 357) or after it (line 381)
Cancel(p) ==
    /\ inv[p].pc \in {"awaiting", "saving"}
    /\ Becomes(p, Ends(IF inv[p].pc = "awaiting"
                       THEN Finally([World(p) EXCEPT !.me.handle = NoHandle])
                       ELSE World(p),
                       "CancelledError", 0, ""))
    /\ UNCHANGED <<db, dbAudio, textVars, serviceVars>>

\* lines 381-396: database.create_file inserts the record and the handler
\* returns it, or create_file returns None
CreateFileReturns(p, inserted) ==
    /\ inv[p].pc = "saving"
    /\ IF inserted
       THEN /\ dbAudio' = Append(dbAudio,
                                 [file_path |-> audioFs[Len(audioFs)].audio_filename,
                                  source_file_id |-> inv[p].file_id,
                                  file_type |-> "mp3", status |-> "converted",
                                  by |-> p])
            /\ Becomes(p, Ends(World(p), "return", 200, "audio_file"))
       ELSE /\ dbAudio' = dbAudio
            /\ Becomes(p, Ends(World(p), "HTTPException", 500, "database write failed"))
    /\ UNCHANGED <<db, textVars, serviceVars>>

Init ==
    /\ db \in { Database(d1, d2) : d1 \in StoredDocs, d2 \in StoredDocs }
    /\ tempFs = EmptyFs
    /\ audioFs = <<>>
    /\ dbAudio = <<>>
    /\ inv = [p \in Invocations |-> IdleInvocation]
    /\ DialogueIdle
    /\ DateIdle
    /\ MarkdownIdle
    /\ ReportIdle
    /\ ServiceIdle

Next ==
    \E p \in Invocations :
        \/ \E file_id \in FileIdArgs, opens \in BOOLEAN, exported \in BOOLEAN :
               Invoke(p, file_id, opens, exported)
        \/ \E opens \in BOOLEAN, exported \in BOOLEAN :
               SynthesisReturns(p, opens, exported)
        \/ SynthesisRaises(p)
        \/ Cancel(p)
        \/ \E inserted \in BOOLEAN : CreateFileReturns(p, inserted)

Spec == Init /\ [][Next]_vars


-----------------------------------------------------------------------------
(* Claims about convert_docx_to_audio (Spec)                               *)

\* the handler of invocation p has returned or raised
Returned(p) == inv[p].pc = "done"

\* invocation p is between its request and its response
InFlight(p) == inv[p].pc \notin {"idle", "done"}

\* the temp clip files that invocation p created
ClipsOf(p) == { path \in DOMAIN tempFs : tempFs[path].by = p }

\* the output tracks and the database records that invocation p made
TracksOf(p) == { k \in 1..Len(audioFs) : audioFs[k].by = p }
RecordsOf(p) == { k \in 1..Len(dbAudio) : dbAudio[k].by = p }

\* C1: once convert_docx_to_audio has returned or raised after the
\* segmentation, no temp clip file that the invocation created is left.
C1_NoTempClipAfterReturn ==
    \A p \in Invocations :
        (Returned(p) /\ inv[p].segmented) => ClipsOf(p) = {}

\* C2: no step of one invocation overwrites or deletes a temp clip of
\* another invocation that is in flight: a temp clip of an invocation that
\* took no step is still there, unchanged, after the step.
C2_Isolation ==
    [][ \A q \in Invocations :
            (inv'[q] = inv[q] /\ InFlight(q)) =>
                \A path \in ClipsOf(q) :
                    path \in DOMAIN tempFs' /\ tempFs'[path] = tempFs[path] ]_vars

\* C5: when split_dialogue returns no turns the handler has failed with the
\* 400 "no dialogue detected", and has made no synthesis call, no call of
\* concat_audios, no temp clip, no output track and no database record.
C5_NoDialogueRejected ==
    \A p \in Invocations :
        (inv[p].segmented /\ inv[p].segments = <<>>) =>
            /\ Returned(p)
            /\ inv[p].outcome = [kind |-> "HTTPException", status |-> 400,
                                 detail |-> "no dialogue detected"]
            /\ inv[p].calls = <<>>
            /\ inv[p].concat_calls = <<>>
            /\ ClipsOf(p) = {} /\ TracksOf(p) = {} /\ RecordsOf(p) = {}

\* C5's case: a document in which split_dialogue finds no turn was submitted
C5_Witness ==
    \E p \in Invocations :
        inv[p].segmented /\ inv[p].segments = <<>> /\ Returned(p)

\* C6: when the adapter failed for turn k, calls were made for the turns up
\* to k and for none after it, concat_audios was never called, there is no
\* output track and no database record, and the adapter's exception left
\* the handler.
C6_SynthesisFailureAborts ==
    \A p \in Invocations :
        inv[p].failed_turn >= 0 =>
            /\ Returned(p)
            /\ inv[p].outcome = [kind |-> "Exception", status |-> 500,
                                 detail |-> "text_to_speech_edge_tts"]
            /\ Len(inv[p].calls) = inv[p].failed_turn + 1
            /\ inv[p].concat_calls = <<>>
            /\ TracksOf(p) = {} /\ RecordsOf(p) = {}

\* C6's case: the adapter failed for a turn that is neither the first nor
\* the last
C6_Witness ==
    \E p \in Invocations :
        /\ inv[p].failed_turn >= 1
        /\ inv[p].failed_turn + 1 < Len(inv[p].segments)

\* the handler of invocation p returned its 200 response
Succeeded(p) == inv[p].outcome.kind = "return"

\* C7: in a run without a failure the adapter was called once per turn of
\* split_dialogue, in turn order, with the cleaned text of the turn and the
\* voice of its speaker.
C7_OneCallPerTurnInOrder ==
    \A p \in Invocations :
        Succeeded(p) =>
            LET turns == split_dialogue(read_docx_text(db[inv[p].file_id].paras))
            IN  /\ Len(inv[p].calls) = Len(turns)
                /\ \A i \in 1..Len(turns) :
                       /\ inv[p].calls[i].text = clean_markdown(turns[i][2])
                       /\ inv[p].calls[i].voice =
                              IF turns[i][1] = female THEN "zh-CN-XiaoyiNeural"
                              ELSE IF turns[i][1] = male THEN "zh-CN-YunyangNeural"
                              ELSE "zh-CN-XiaoxiaoNeural"

\* C7's case: a run without a failure over turns of both speakers
C7_Witness ==
    \E p \in Invocations :
        /\ Succeeded(p)
        /\ \E i, j \in 1..Len(inv[p].segments) :
               inv[p].segments[i][1] = female /\ inv[p].segments[j][1] = male

RECURSIVE SumDur(_)
SumDur(clips) == IF clips = <<>> THEN 0 ELSE Head(clips).dur + SumDur(Tail(clips))

\* C8: on success concat_audios was handed one temp path per turn, pairwise
\* distinct and in turn order, and the output track is the clips of those
\* turns in that order and lasts as long as they do together.
C8_ClipsConcatenatedInOrder ==
    \A p \in Invocations :
        Succeeded(p) =>
            /\ Len(inv[p].concat_calls) = 1
            /\ LET audio_paths == inv[p].concat_calls[1]
                   n == Len(inv[p].segments)
               IN  /\ Len(audio_paths) = n
                   /\ \A i \in 1..n : audio_paths[i] = <<"temp", inv[p].file_id, i - 1>>
                   /\ \A i, j \in 1..n : i # j => audio_paths[i] # audio_paths[j]
                   /\ \E k \in 1..Len(audioFs) :
                          /\ TracksOf(p) = {k}
                          /\ Len(audioFs[k].track.clips) = n
                          /\ \A i \in 1..n :
                                 /\ audioFs[k].track.clips[i].text = inv[p].calls[i].text
                                 /\ audioFs[k].track.clips[i].voice = inv[p].calls[i].voice
                          /\ audioFs[k].track.duration = SumDur(audioFs[k].track.clips)

\* C8's case: a successful run over three turns
C8_Witness ==
    \E p \in Invocations : Succeeded(p) /\ Len(inv[p].segments) >= 3

\* main.global_exception_handler: every exception that is not an
\* HTTPException becomes the same 500 response; its detail is str(exc) when
\* settings.DEBUG is set and None when it is not
global_exception_handler(exc, DEBUG) ==
    [status_code |-> 500,
     content |-> [error |-> "internal server error",
                  message |-> "unexpected server error, retry later",
                  detail |-> IF DEBUG THEN exc.detail ELSE "None"]]

\* main.http_exception_handler: the status code and the detail of the
\* HTTPException
http_exception_handler(exc) ==
    [status_code |-> exc.status,
     content |-> [error |-> "request error", message |-> exc.detail]]

\* the response the caller of a handler that raised exc gets
ErrorResponse(exc, DEBUG) ==
    IF exc.kind = "HTTPException" THEN http_exception_handler(exc)
    ELSE global_exception_handler(exc, DEBUG)

\* the failure mode invocation p ended with
FailureMode(p) ==
    IF inv[p].pc # "done" THEN "none"
    ELSE IF inv[p].outcome.detail = "no dialogue detected" THEN "NoDialogueDetected"
    ELSE IF inv[p].outcome.detail = "text_to_speech_edge_tts" THEN "SynthesisFailure"
    ELSE IF inv[p].outcome.detail = "concat_audios" THEN "ConcatenationFailure"
    ELSE "none"

IsGenericError(response) ==
    response.status_code = 500 /\ response.content.error = "internal server error"

\* C18: NoDialogueDetected, SynthesisFailure and ConcatenationFailure each
\* reach the caller as a response of their own: none of them is the generic
\* internal-error response, and two invocations that ended in different
\* failure modes got different responses (whatever settings.DEBUG is).
C18_FailureModesDistinct ==
    \A DEBUG \in BOOLEAN : \A p \in Invocations :
        FailureMode(p) # "none" =>
            /\ ~IsGenericError(ErrorResponse(inv[p].outcome, DEBUG))
            /\ \A q \in Invocations :
                   FailureMode(q) \notin {"none", FailureMode(p)} =>
                       ErrorResponse(inv[q].outcome, DEBUG)
                           # ErrorResponse(inv[p].outcome, DEBUG)

\* C27: every text that convert_docx_to_audio hands to the synthesis
\* adapter is non-empty.
C27_SynthesisTextNonEmpty ==
    \A p \in Invocations : \A i \in 1..Len(inv[p].calls) : inv[p].calls[i].text # <<>>


-----------------------------------------------------------------------------
(* Claims about normalize_date (SpecDate)                                  *)

\* the month and day of the token are a day of the calendar of year y
ValidMonthDay(t, y) ==
    /\ ToNat(t.m) \in 1..12
    /\ ToNat(t.d) \in 1..DaysInMonth(y, ToNat(t.m))

\* YYYY-MM-DD, zero-padded, of the token's month and day in year y
Canonical(t, y) ==
    Pad(ToStr(y), 4) \o <<"-">> \o Pad(ToStr(ToNat(t.m)), 2) \o <<"-">>
    \o Pad(ToStr(ToNat(t.d)), 2)

\* C9: a valid YYYY.M.D token, with or without a full-width weekday
\* annotation, is normalized to zero-padded YYYY-MM-DD.
C9_DotDateNormalized ==
    ( /\ dateOut.ran
      /\ dateTok.form = "dot"
      /\ dateTok.ann \in {<<>>} \cup FullWidthAnnotations
      /\ ValidMonthDay(dateTok, ToNat(dateTok.y)) )
    => dateOut.value = Canonical(dateTok, ToNat(dateTok.y))

\* C10: a valid token without a year (M yue D ri, M/D, M-D) is normalized to
\* <current year>-MM-DD, zero-padded.
C10_NoYearGetsCurrentYear ==
    ( /\ dateOut.ran
      /\ dateTok.form \in NoYearForms
      /\ ValidMonthDay(dateTok, nowYear) )
    => dateOut.value = Canonical(dateTok, nowYear)

\* the token denotes no day of the calendar: it is not a date at all, or its
\* month and day are not a day of its year (of the current year where the
\* token has none)
Unparseable(t, year) ==
    IF t.form = "raw" THEN TRUE
    ELSE ~ValidMonthDay(t, IF t.y = <<>> THEN year ELSE ToNat(t.y))

\* C11: for a token that cannot be parsed as a calendar date normalize_date
\* returns the raw token string unchanged, also where the token holds nian,
\* yue, ri, "/" or a weekday annotation.
C11_UnparseableReturnedUnchanged ==
    (dateOut.ran /\ Unparseable(dateTok, nowYear))
    => dateOut.value = TokenText(dateTok)

\* C12: a valid token of the form YYYY nian M yue D ri, YYYY-M-D or YYYY/M/D,
\* month and day of one or two digits, is normalized to the zero-padded
\* YYYY-MM-DD of the same date.
C12_YearFormsNormalized ==
    ( /\ dateOut.ran
      /\ dateTok.form \in {"nianyueri", "dash", "slash"}
      /\ ValidMonthDay(dateTok, ToNat(dateTok.y)) )
    => dateOut.value = Canonical(dateTok, ToNat(dateTok.y))

\* C12's case: 2025 nian 7 yue 9 ri has been normalized to 2025-07-09
C12_Witness ==
    /\ dateOut.ran
    /\ dateTok.form = "nianyueri"
    /\ dateTok.y = <<"2", "0", "2", "5">> /\ dateTok.m = <<"7">> /\ dateTok.d = <<"9">>
    /\ dateOut.value = <<"2", "0", "2", "5", "-", "0", "7", "-", "0", "9">>

-----------------------------------------------------------------------------
(* SpecMarkdown: clean_markdown applied to every short text over the       *)
(* markup characters and an ordinary character                             *)

MaxLen == 4

MarkupChars == {"*", "_", BT}
MarkdownTexts == UNION { [1..n -> MarkupChars \cup {"x"}] : n \in 0..MaxLen }

InitMarkdown ==
    /\ mdText \in MarkdownTexts
    /\ mdOut = NotRun
    /\ DialogueIdle
    /\ DateIdle
    /\ ReportIdle
    /\ PipelineIdle
    /\ ServiceIdle

CleanMarkdown ==
    /\ ~mdOut.ran
    /\ mdOut' = Result(clean_markdown(mdText))
    /\ UNCHANGED <<mdText, dlgDoc, dlgOut, dateTok, nowYear, dateOut, reportVars,
                   pipelineVars, serviceVars>>

NextMarkdown == CleanMarkdown

SpecMarkdown == InitMarkdown /\ [][NextMarkdown]_vars

-----------------------------------------------------------------------------
(* Claims about clean_markdown (SpecMarkdown)                              *)

\* delim occurs in text
Contains(text, delim) ==
    \E i \in 1..Len(text) :
        i + Len(delim) - 1 <= Len(text) /\ SubSeq(text, i, i + Len(delim) - 1) = delim

\* the four documented delimiters: two asterisks, one asterisk, two
\* underscores, one backtick
Delimiters == { <<"*", "*">>, <<"*">>, <<"_", "_">>, <<BT>> }

\* C19: clean_markdown is idempotent: cleaning what it returned returns the
\* same text.
C19_CleanIdempotent ==
    mdOut.ran => clean_markdown(mdOut.value) = mdOut.value

\* C20: what clean_markdown returns contains none of the four delimiters.
C20_NoDelimiterLeft ==
    mdOut.ran => \A delim \in Delimiters : ~Contains(mdOut.value, delim)

-----------------------------------------------------------------------------
(* utils.split_daily_report_by_date                                        *)

Max(S) == CHOOSE x \in S : \A y \in S : y <= x

Lit(c) == Item({c}, 1, 1)

\* \d{4}\.\d{1,2}\.\d{1,2}
DotDate == << Item(Digit, 4, 4), Lit("."), Item(Digit, 1, 2), Lit("."), Item(Digit, 1, 2) >>

\* The seven patterns, each as the set of the alternatives it stands for;
\* n bounds the repetition of [^...]* by the length of the text.  The first
\* pattern ends in an optional group: a full- or half-width "(", characters
\* that are no ")", and a full- or half-width ")".
DatePatterns(n) ==
    << { DotDate,
         DotDate \o << Item({"[", "("}, 1, 1), NoneOf({"]", ")"}, 0, n),
                       Item({"]", ")"}, 1, 1) >> },
       { << Item(Digit, 4, 4), Lit("nian"), Item(Digit, 1, 2), Lit("yue"),
            Item(Digit, 1, 2), Lit("ri") >> },
       { << Item(Digit, 1, 2), Lit("yue"), Item(Digit, 1, 2), Lit("ri") >> },
       { << Item(Digit, 4, 4), Lit("-"), Item(Digit, 1, 2), Lit("-"), Item(Digit, 1, 2) >> },
       { << Item(Digit, 4, 4), Lit("/"), Item(Digit, 1, 2), Lit("/"), Item(Digit, 1, 2) >> },
       { << Item(Digit, 1, 2), Lit("/"), Item(Digit, 1, 2) >> },
       { << Item(Digit, 1, 2), Lit("-"), Item(Digit, 1, 2) >> } >>

\* list(re.finditer(pattern, text)) from position i on: the matches from
\* left to right, none overlapping another of the same pattern.  Every
\* quantifier is greedy and in these patterns only the last digit run and
\* the optional group can vary in length, so the match at a position is the
\* longest one.  A match is [start, end]: its first position and the
\* position after its last, counted from 1.
RECURSIVE FindIter(_, _, _)
FindIter(text, i, alts) ==
    IF i > Len(text) THEN <<>>
    ELSE LET ends == UNION { MatchEnds(text, i, a) : a \in alts }
         IN  IF ends = {} THEN FindIter(text, i + 1, alts)
             ELSE <<[start |-> i, end |-> Max(ends)]>> \o FindIter(text, Max(ends), alts)

\* matches.extend(pattern_matches) for the patterns k, k + 1, ...
RECURSIVE ExtendFrom(_, _)
ExtendFrom(text, k) ==
    IF k > Len(DatePatterns(Len(text))) THEN <<>>
    ELSE FindIter(text, 1, DatePatterns(Len(text))[k]) \o ExtendFrom(text, k + 1)

\* list.sort(key=lambda x: x.start()): stable
RECURSIVE InsertByStart(_, _)
InsertByStart(sorted, m) ==
    IF sorted = <<>> THEN <<m>>
    ELSE IF sorted[Len(sorted)].start <= m.start THEN Append(sorted, m)
    ELSE Append(InsertByStart(SubSeq(sorted, 1, Len(sorted) - 1), m), sorted[Len(sorted)])

RECURSIVE SortByStart(_)
SortByStart(ms) ==
    IF ms = <<>> THEN <<>>
    ELSE InsertByStart(SortByStart(SubSeq(ms, 1, Len(ms) - 1)), ms[Len(ms)])

\* a text without a date is one section without a date
split_daily_report_Undated(text, year) ==
    IF Strip(text) = <<>> THEN <<>> ELSE << << <<>>, Strip(text) >> >>

\* The loop over the matches in the order of their start: for every match
\* the normalized date and the trimmed text from the end of the match to
\* the start of the next match (or the end of the text).  start is the
\* first position of the match, from..to the span the content is cut from
\* (empty where the next match starts before this one ends).
DateSections(text, year) ==
    LET matches == SortByStart(ExtendFrom(text, 1))
        Section(i) ==
            LET date_str == SubSeq(text, matches[i].start, matches[i].end - 1)
                end == IF i + 1 <= Len(matches) THEN matches[i + 1].start
                       ELSE Len(text) + 1
            IN  [start |-> matches[i].start,
                 from |-> matches[i].end, to |-> end - 1,
                 date |-> normalize_date(date_str, year),
                 content |-> Strip(Slice(text, matches[i].end, end - 1))]
    IN  [i \in 1..Len(matches) |-> Section(i)]

\* "if content": the sections that are appended to results
KeptSections(text, year) ==
    SelectSeq(DateSections(text, year), LAMBDA r : r.content # <<>>)

\* [(date, content), ...]
split_daily_report_by_date(text, year) ==
    LET results == KeptSections(text, year)
    IN  [i \in 1..Len(results) |-> << results[i].date, results[i].content >>]

-----------------------------------------------------------------------------
(* api.analyze_daily_report: the timeline                                  *)

\* the code point of a character (of the character a stand-in is for)
CodePoint(c) ==
    CASE c = "\n" -> 10 [] c = " " -> 32 [] c = "(" -> 40 [] c = ")" -> 41
      [] c = "*" -> 42 [] c = "-" -> 45 [] c = "." -> 46 [] c = "/" -> 47
      [] c \in Digit -> 48 + DigitVal(c)
      [] c = ":" -> 58 [] c = "B" -> 66 [] c = "D" -> 68 [] c = "T" -> 84
      [] c = BS -> 92 [] c = "_" -> 95 [] c = BT -> 96
      [] c = "a" -> 97 [] c = "d" -> 100 [] c = "e" -> 101 [] c = "n" -> 110
      [] c = "o" -> 111 [] c = "t" -> 116
      [] c = "w1" -> 19968 [] c = "w3" -> 19977 [] c = "w2" -> 20108
      [] c = "w5" -> 20116 [] c = "x" -> 20320 [] c = "w6" -> 20845
      [] c = "hao" -> 21495 [] c = "w4" -> 22235 [] c = "F" -> 22899
      [] c = "y" -> 22909 [] c = "nian" -> 24180 [] c = "ri" -> 26085
      [] c = "yue" -> 26376 [] c = "S" -> 29983 [] c = "M" -> 30007
      [] c = "[" -> 65288 [] c = "]" -> 65289 [] c = "C" -> 65306

\* a < b for two str: the first difference decides, a proper prefix is less
RECURSIVE StrLess(_, _)
StrLess(a, b) ==
    IF b = <<>> THEN FALSE
    ELSE IF a = <<>> THEN TRUE
    ELSE IF Head(a) = Head(b) THEN StrLess(Tail(a), Tail(b))
    ELSE CodePoint(Head(a)) < CodePoint(Head(b))

\* the timeline left in the order of the document
InsertByDate_Append(sorted, e) == Append(sorted, e)

\* timeline.sort(key=lambda x: x["date"]): stable
RECURSIVE InsertByDate(_, _)
InsertByDate(sorted, e) ==
    IF sorted = <<>> THEN <<e>>
    ELSE IF ~StrLess(e.date, sorted[Len(sorted)].date) THEN Append(sorted, e)
    ELSE Append(InsertByDate(SubSeq(sorted, 1, Len(sorted) - 1), e), sorted[Len(sorted)])

RECURSIVE SortByDate(_)
SortByDate(timeline) ==
    IF timeline = <<>> THEN <<>>
    ELSE InsertByDate(SortByDate(SubSeq(timeline, 1, Len(timeline) - 1)),
                      timeline[Len(timeline)])

MaxSections == 3

\* the headings of a report: 2025.7.9, 2025.7.14, 2025.7.15 with a
\* full-width weekday, 2025-7-14, and TBD
ReportTokens ==
    { [form |-> "dot", y |-> <<"2", "0", "2", "5">>, m |-> <<"7">>, d |-> <<"9">>, ann |-> <<>>],
      [form |-> "dot", y |-> <<"2", "0", "2", "5">>, m |-> <<"7">>, d |-> <<"1", "4">>, ann |-> <<>>],
      [form |-> "dot", y |-> <<"2", "0", "2", "5">>, m |-> <<"7">>, d |-> <<"1", "5">>,
       ann |-> <<"[", "w2", "]">>],
      [form |-> "dash", y |-> <<"2", "0", "2", "5">>, m |-> <<"7">>, d |-> <<"1", "4">>, ann |-> <<>>],
      [form |-> "raw", y |-> <<"T", "B", "D">>, m |-> <<>>, d |-> <<>>, ann |-> <<>>] }
ReportBodies == { <<"x", "y">>, <<" ">> }
ReportPreambles == { <<"x">> }

\* a report: a title paragraph before the first heading, then for every day a
\* heading paragraph and a paragraph of text
Reports ==
    [pre : ReportPreambles,
     units : UNION { [1..n -> [token : ReportTokens, body : ReportBodies]] :
                         n \in 0..MaxSections }]

RECURSIVE UnitParas(_)
UnitParas(us) ==
    IF us = <<>> THEN <<>>
    ELSE << TokenText(Head(us).token), Head(us).body >> \o UnitParas(Tail(us))

\* the paragraphs of the docx file of a report
ReportParas(doc) == <<doc.pre>> \o UnitParas(doc.units)

\* what the model answers: call_deepseek returns it, .strip() is applied
Replies == { <<"p", "\n">>, <<"q">> }

\* datetime.now().year while the report is analyzed
ReportYear == 2025

IdleReport ==
    [pc |-> "idle", outcome |-> NoOutcome, date_contents |-> <<>>, calls |-> <<>>,
     summaries |-> <<>>, timeline |-> <<>>, raised |-> 0]

\* summarize_content_with_deepseek(date, content) is entered for the next
\* section: the prompt with the date and the content goes to call_deepseek
CallSummarizer(r) ==
    LET section == r.date_contents[Len(r.calls) + 1]
    IN  [r EXCEPT !.pc = "summarizing",
                  !.calls = Append(@, [date |-> section[1], content |-> section[2]])]

\* the head of the for loop: the next section, or after the last one
\* timeline.sort
DigestStep(r) ==
    IF Len(r.calls) < Len(r.date_contents) THEN CallSummarizer(r)
    ELSE [r EXCEPT !.pc = "wordcloud", !.timeline = SortByDate(@)]

\* call_deepseek raises HTTPException(500); nothing in analyze_daily_report
\* catches it
OnSummarizerError(r, exc) == [r EXCEPT !.pc = "done", !.outcome = exc]

\* POST /daily_report/analyze with the report as a docx file: the text is
\* read and split by date, the loop is entered
AnalyzeDailyReport ==
    /\ rpt.pc = "idle"
    /\ LET text == read_docx_text(ReportParas(rptDoc))
           date_contents == split_daily_report_by_date(text, nowYear)
       IN  rpt' = DigestStep([rpt EXCEPT !.date_contents = date_contents])
    /\ UNCHANGED <<rptDoc, nowYear, dateTok, dateOut, dlgDoc, dlgOut, markdownVars,
                   pipelineVars, serviceVars>>

\* call_deepseek returns the reply of the model
SummarizerReturns(reply) ==
    /\ rpt.pc = "summarizing"
    /\ LET date == rpt.calls[Len(rpt.calls)].date
           summary == Strip(reply)
       IN  rpt' = DigestStep([rpt EXCEPT
                                 !.summaries = Append(@, summary),
                                 !.timeline = Append(@, [date |-> date, summary |-> summary])])
    /\ UNCHANGED <<rptDoc, nowYear, dateTok, dateOut, dlgDoc, dlgOut, markdownVars,
                   pipelineVars, serviceVars>>

\* requests.post fails or the answer is not the expected JSON
SummarizerRaises ==
    /\ rpt.pc = "summarizing"
    /\ rpt' = OnSummarizerError([rpt EXCEPT !.raised = Len(rpt.calls)],
                                [kind |-> "HTTPException", status |-> 500,
                                 detail |-> "DeepSeek failed"])
    /\ UNCHANGED <<rptDoc, nowYear, dateTok, dateOut, dlgDoc, dlgOut, markdownVars,
                   pipelineVars, serviceVars>>

\* generate_wordcloud draws the picture and the handler returns the
\* timeline, or it raises (no word to draw, no font)
WordCloudEnds(drawn) ==
    /\ rpt.pc = "wordcloud"
    /\ rpt' = [rpt EXCEPT
                  !.pc = "done",
                  !.outcome = IF drawn
                              THEN [kind |-> "return", status |-> 200, detail |-> "timeline"]
                              ELSE [kind |-> "Exception", status |-> 500,
                                    detail |-> "generate_wordcloud"]]
    /\ UNCHANGED <<rptDoc, nowYear, dateTok, dateOut, dlgDoc, dlgOut, markdownVars,
                   pipelineVars, serviceVars>>

InitReport ==
    /\ rptDoc \in Reports
    /\ rpt = IdleReport
    /\ nowYear = ReportYear
    /\ dateTok = <<>> /\ dateOut = NotRun
    /\ DialogueIdle
    /\ MarkdownIdle
    /\ PipelineIdle
    /\ ServiceIdle

NextReport ==
    \/ AnalyzeDailyReport
    \/ \E reply \in Replies : SummarizerReturns(reply)
    \/ SummarizerRaises
    \/ \E drawn \in BOOLEAN : WordCloudEnds(drawn)

SpecReport == InitReport /\ [][NextReport]_vars

-----------------------------------------------------------------------------
(* Claims about the digest of analyze_daily_report (SpecReport)            *)

\* the for loop and the sort are through: the timeline is made
Digested == rpt.pc = "wordcloud" \/ (rpt.pc = "done" /\ rpt.raised = 0)

\* the handler has returned its response, the timeline in it
ReportReturned == rpt.pc = "done" /\ rpt.outcome.kind = "return"

\* no heading of the report is a date (nor is there a digit anywhere else)
NoDateToken(doc) == \A k \in 1..Len(doc.units) : doc.units[k].token.form = "raw"

\* C13: for a text in which no date recognizer matches
\* split_daily_report_by_date returns no section, and the digest step is
\* then through with an empty timeline, without a call of the summarizer
\* and without an error.
C13_NoDateEmptyTimeline ==
    (rpt.pc # "idle" /\ NoDateToken(rptDoc)) =>
        /\ rpt.date_contents = <<>>
        /\ rpt.calls = <<>>
        /\ Digested
        /\ rpt.timeline = <<>>

\* C13's case: a report with text under a heading that is no date was
\* answered with an empty timeline
C13_Witness ==
    /\ ReportReturned
    /\ NoDateToken(rptDoc)
    /\ \E k \in 1..Len(rptDoc.units) : NonBlank(rptDoc.units[k].body)
    /\ rpt.timeline = <<>>

\* the {date, summary} entries of the sections summarized so far
Entries ==
    [i \in 1..Len(rpt.summaries) |->
        [date |-> rpt.date_contents[i][1], summary |-> rpt.summaries[i]]]

Count(seq, e) == Cardinality({ i \in 1..Len(seq) : seq[i] = e })

IsPermutation(a, b) ==
    /\ Len(a) = Len(b)
    /\ \A i \in 1..Len(a) : Count(a, a[i]) = Count(b, a[i])

\* C14: the summarizer is called once for every section that
\* split_daily_report_by_date returned, in order, with the date and the text
\* of the section; the timeline is a permutation of the {date, summary}
\* entries, in non-decreasing lexical order of the date.
C14_OneSummaryPerSectionSorted ==
    /\ rpt.pc # "idle" =>
           /\ Len(rpt.calls) <= Len(rpt.date_contents)
           /\ \A i \in 1..Len(rpt.calls) :
                  rpt.calls[i] = [date |-> rpt.date_contents[i][1],
                                  content |-> rpt.date_contents[i][2]]
    /\ Digested =>
           /\ Len(rpt.calls) = Len(rpt.date_contents)
           /\ Len(rpt.summaries) = Len(rpt.calls)
           /\ IsPermutation(rpt.timeline, Entries)
           /\ \A i \in 1..Len(rpt.timeline) : \A j \in i..Len(rpt.timeline) :
                  ~StrLess(rpt.timeline[j].date, rpt.timeline[i].date)

\* C14's case: a timeline of several entries was returned in another order
\* than that of the document
C14_Witness ==
    /\ ReportReturned
    /\ Len(rpt.timeline) >= 2
    /\ rpt.timeline # Entries

\* every heading of the report is a valid date in a recognised format
AllValidDates(doc) ==
    /\ Len(doc.units) >= 1
    /\ \A k \in 1..Len(doc.units) :
           /\ doc.units[k].token.form # "raw"
           /\ ValidMonthDay(doc.units[k].token, ToNat(doc.units[k].token.y))

\* the string is a date written as zero-padded YYYY-MM-DD
IsPadded(date) == strptime(date) # NoDate /\ strftime(strptime(date)) = date

\* day a is not after day b
NotAfter(a, b) ==
    \/ a[1] < b[1]
    \/ a[1] = b[1] /\ a[2] < b[2]
    \/ a[1] = b[1] /\ a[2] = b[2] /\ a[3] <= b[3]

\* C15: for a report whose headings are all valid dates in the recognised
\* formats every date of the timeline is zero-padded YYYY-MM-DD and the
\* timeline is in chronological order.
C15_ValidDatesChronological ==
    (Digested /\ AllValidDates(rptDoc)) =>
        /\ \A i \in 1..Len(rpt.timeline) : IsPadded(rpt.timeline[i].date)
        /\ \A i \in 1..Len(rpt.timeline) : \A j \in i..Len(rpt.timeline) :
               NotAfter(strptime(rpt.timeline[i].date), strptime(rpt.timeline[j].date))

\* the report of three days headed 2025.7.14, 2025.7.15 with its weekday,
\* and TBD, each with text
ThreeDayReport(doc) ==
    /\ Len(doc.units) = 3
    /\ \A k \in 1..3 : NonBlank(doc.units[k].body)
    /\ doc.units[1].token.form = "dot" /\ doc.units[1].token.d = <<"1", "4">>
    /\ doc.units[2].token.form = "dot" /\ doc.units[2].token.d = <<"1", "5">>
    /\ doc.units[3].token.form = "raw"

\* C16: the digest of the three-day report has three entries, one for each
\* heading, and the entry of the 14th stands before that of the 15th.
C16_ThreeDayReport ==
    (Digested /\ ThreeDayReport(rptDoc)) =>
        /\ Len(rpt.timeline) = 3
        /\ \E i \in 1..Len(rpt.timeline) : \E j \in (i + 1)..Len(rpt.timeline) :
               /\ rpt.timeline[i].date
                      = normalize_date(TokenText(rptDoc.units[1].token), nowYear)
               /\ rpt.timeline[j].date
                      = normalize_date(TokenText(rptDoc.units[2].token), nowYear)

\* C17: a failure of the summarizer for one section does not abort the
\* digest: the handler still returns, and the timeline it returns holds the
\* entries of the sections summarized before.
C17_SummarizerFailurePerSection ==
    (rpt.pc = "done" /\ rpt.raised > 0) =>
        /\ rpt.outcome.kind = "return"
        /\ \A i \in 1..Len(rpt.summaries) : Count(rpt.timeline, Entries[i]) >= 1

-----------------------------------------------------------------------------
(* SpecConcat: concat_audios applied to every short list of clips          *)

MaxClips == 3

\* the mp3 files that may be handed over, told apart by their duration
Clips == [dur : {1, 2, 3}]
ClipLists == UNION { [1..n -> Clips] : n \in 0..MaxClips }

InitConcat ==
    /\ concatIn \in ClipLists
    /\ concatOut = NotRun
    /\ DialogueIdle
    /\ DateIdle
    /\ MarkdownIdle
    /\ ReportIdle
    /\ PipelineIdle
    /\ SectionIdle
    /\ StoreIdle

\* concat_audios(audio_paths, output_path), the i-th path naming the i-th
\* clip: the clips are loaded and added to AudioSegment.empty() in order and
\* the sum is exported; there is no test of the list.  exported says whether
\* the encoder wrote the file (ffmpeg may refuse a track without a frame).
ConcatAudios(exported) ==
    /\ ~concatOut.ran
    /\ LET audio_paths == [i \in 1..Len(concatIn) |-> i]
       IN  concatOut' =
               Result(IF exported
                      THEN [kind |-> "track", detail |-> "",
                            track |-> concat_audios(audio_paths, concatIn)]
                      ELSE [kind |-> "Exception", detail |-> "CouldntEncodeError",
                            track |-> <<>>])
    /\ UNCHANGED <<concatIn, textVars, pipelineVars, sectionVars, storeVars>>

NextConcat == \E exported \in BOOLEAN : ConcatAudios(exported)

SpecConcat == InitConcat /\ [][NextConcat]_vars

\* C22: concat_audios called with an empty list of clips fails with an
\* EmptyClipSet error and produces no output track.
C22_EmptyClipSetRejected ==
    (concatOut.ran /\ concatIn = <<>>) =>
        /\ concatOut.value.kind = "Exception"
        /\ concatOut.value.detail = "EmptyClipSet"

-----------------------------------------------------------------------------
(* SpecSections: split_daily_report_by_date applied to documents with      *)
(* headings of every recognised form                                       *)

MaxHeadings == 2

\* 2025 7 14 in each of the seven forms, 2025.7.9, 2025.7.14 with a
\* full-width and with a half-width weekday, and TBD
SectionTokens ==
    [form : YearForms, y : {<<"2", "0", "2", "5">>}, m : {<<"7">>},
     d : {<<"1", "4">>}, ann : {<<>>}]
    \cup [form : NoYearForms, y : {<<>>}, m : {<<"7">>}, d : {<<"1", "4">>}, ann : {<<>>}]
    \cup [form : {"dot"}, y : {<<"2", "0", "2", "5">>}, m : {<<"7">>}, d : {<<"9">>},
          ann : {<<>>}]
    \cup [form : {"dot"}, y : {<<"2", "0", "2", "5">>}, m : {<<"7">>}, d : {<<"1", "4">>},
          ann : {<<"[", "w1", "]">>, <<"(", "w1", ")">>}]
    \cup [form : {"raw"}, y : {<<"T", "B", "D">>}, m : {<<>>}, d : {<<>>}, ann : {<<>>}]

SectionDocs ==
    [pre : {<<>>},
     units : UNION { [1..n -> [token : SectionTokens, body : ReportBodies]] :
                         n \in 0..MaxHeadings }]

\* the text of the document
SectionText(doc) == read_docx_text(ReportParas(doc))

InitSections ==
    /\ secDoc \in SectionDocs
    /\ secOut = NotRun
    /\ nowYear = ReportYear
    /\ dateTok = <<>> /\ dateOut = NotRun
    /\ DialogueIdle
    /\ MarkdownIdle
    /\ ReportIdle
    /\ PipelineIdle
    /\ ConcatIdle
    /\ StoreIdle

SplitDailyReport ==
    /\ ~secOut.ran
    /\ secOut' = Result(split_daily_report_by_date(SectionText(secDoc), nowYear))
    /\ UNCHANGED <<secDoc, textVars, pipelineVars, concatVars, storeVars>>

NextSections == SplitDailyReport

SpecSections == InitSections /\ [][NextSections]_vars

\* the matches of the seven recognizers in the text, and the spans of the
\* sections that were returned
MatchesIn(text) == SortByStart(ExtendFrom(text, 1))
SpansOf(doc) == KeptSections(SectionText(doc), nowYear)

\* C24: the sections are returned in increasing order of the start of their
\* date token, their texts are pairwise non-overlapping spans of the source,
\* and no section text holds a character of a matched date token, also
\* where two recognizers match overlapping substrings.
C24_SectionsOrderedDisjoint ==
    secOut.ran =>
        LET spans == SpansOf(secDoc)
            matches == MatchesIn(SectionText(secDoc))
        IN  /\ Len(secOut.value) = Len(spans)
            /\ \A i \in 1..Len(spans) : \A j \in (i + 1)..Len(spans) :
                   /\ spans[i].start < spans[j].start
                   /\ spans[i].to < spans[j].from
            /\ \A i \in 1..Len(spans) : \A k \in 1..Len(matches) :
                   \A q \in spans[i].from..spans[i].to :
                       ~(matches[k].start <= q /\ q < matches[k].end)

\* the document has one heading, a valid date with its year written as
\* YYYY nian M yue D ri, YYYY-M-D or YYYY/M/D, and text under it
OneFullYearToken(doc) ==
    /\ Len(doc.units) = 1
    /\ doc.units[1].token.form \in {"nianyueri", "dash", "slash"}
    /\ ValidMonthDay(doc.units[1].token, ToNat(doc.units[1].token.y))
    /\ NonBlank(doc.units[1].body)

\* C25: for a document whose only date token is a full-year token followed
\* by content split_daily_report_by_date returns one section: its date the
\* YYYY-MM-DD of the token, its text the trimmed content after the token.
C25_FullYearTokenOneSection ==
    (secOut.ran /\ OneFullYearToken(secDoc)) =>
        secOut.value = << << Canonical(secDoc.units[1].token, ToNat(secDoc.units[1].token.y)),
                             Strip(secDoc.units[1].body) >> >>

-----------------------------------------------------------------------------
(* SpecStore: the file records and the files on disk under the requests    *)
(* that create, read and delete them                                       *)

MaxCreates == 3

\* the ObjectIds and the uuid4 values, in the order they are handed out
IdNames == <<"i1", "i2", "i3", "i4", "i5">>
UuidNames == <<"u1", "u2", "u3", "u4", "u5">>
NewId == IdNames[clock + 1]
NewUuid == UuidNames[clock + 1]

\* an id of no record, and a string that is no ObjectId at all
UnknownId == "i0"
\* the ids a client can know of: those handed out so far
FileIdPaths == {UnknownId} \cup { IdNames[i] : i \in 1..clock }

\* the routes of the router in the order of their registration; "{}" is a
\* path parameter, which takes one segment
Routes ==
    << [method |-> "POST", path |-> <<"file_upload">>, endpoint |-> "upload_file"],
       [method |-> "POST", path |-> <<"convert_docx_to_pdf">>,
        endpoint |-> "convert_docx_to_pdf_api"],
       [method |-> "POST", path |-> <<"files", "convert_to_podcast">>,
        endpoint |-> "convert_to_podcast"],
       [method |-> "POST", path |-> <<"files", "convert_to_audio">>,
        endpoint |-> "convert_docx_to_audio"],
       [method |-> "GET", path |-> <<"files", "audio_download", "{}">>,
        endpoint |-> "download_audio_file"],
       [method |-> "POST", path |-> <<"daily_report", "analyze">>,
        endpoint |-> "analyze_daily_report"],
       [method |-> "GET", path |-> <<"daily_report", "selectable">>,
        endpoint |-> "get_selectable_daily_reports"],
       [method |-> "POST", path |-> <<"daily_report", "timeline_batch">>,
        endpoint |-> "analyze_daily_report_timeline_batch"],
       [method |-> "POST", path |-> <<"daily_report", "cloudmap_batch">>,
        endpoint |-> "analyze_daily_report_cloudmap_batch"],
       [method |-> "GET", path |-> <<"files", "cloud_map", "{}">>,
        endpoint |-> "download_cloud_map"],
       [method |-> "GET", path |-> <<"files">>, endpoint |-> "get_files"],
       [method |-> "GET", path |-> <<"files", "{}">>, endpoint |-> "get_file"],
       [method |-> "GET", path |-> <<"files", "download", "{}">>,
        endpoint |-> "download_file"],
       [method |-> "DELETE", path |-> <<"files", "{}">>, endpoint |-> "delete_file"],
       [method |-> "POST", path |-> <<"files", "generate_weekly_report", "{}">>,
        endpoint |-> "generate_weekly_report"],
       [method |-> "GET", path |-> <<"files", "generated_reports">>,
        endpoint |-> "get_generated_reports"],
       [method |-> "GET", path |-> <<"files", "generated_reports", "{}", "download">>,
        endpoint |-> "download_generated_report"] >>

MatchesRoute(route, method, path) ==
    /\ route.method = method
    /\ Len(route.path) = Len(path)
    /\ \A i \in 1..Len(path) : route.path[i] = "{}" \/ route.path[i] = path[i]

\* the endpoint of the first route that matches the request
Route(method, path) ==
    LET hits == { k \in 1..Len(Routes) : MatchesRoute(Routes[k], method, path) }
    IN  IF hits = {} THEN "not_found"
        ELSE Routes[CHOOSE k \in hits : \A j \in hits : k <= j].endpoint

\* f"{prefix}_{uuid}{extension}"
generate_unique_filename(prefix, uuid, extension) == <<prefix, "_", uuid, extension>>

ALLOWED_EXTENSIONS == {".docx", ".pdf"}

\* Path(filename).suffix.lower().lstrip('.')
get_file_type(filename) ==
    LET suffix == filename[Len(filename)]
    IN  IF suffix = ".docx" THEN "docx" ELSE IF suffix = ".pdf" THEN "pdf" ELSE "mp3"

None == [none |-> TRUE]

\* database.get_file_by_id: the record, or None where there is none, where
\* the string is no ObjectId, or where the query fails
get_file_by_id(file_id, db_ok) ==
    IF db_ok /\ file_id \in DOMAIN files THEN files[file_id] ELSE None

\* utils.cleanup_file: the file is removed if it is there; removed is
\* FALSE where os.remove raises, and the function then returns False
cleanup_file(on_disk, file_path, removed) ==
    IF removed THEN on_disk \ {file_path} ELSE on_disk

HttpResponse(endpoint, file_id, status, body, db_ok) ==
    [endpoint |-> endpoint, file_id |-> file_id, status |-> status, body |-> body,
     db_ok |-> db_ok]

\* what FileResponse shows of a record
FileResponse(id, record) ==
    [id |-> id, filename |-> record.filename, file_type |-> record.file_type,
     status |-> record.status]

\* the checks of a source file that the converting handlers share: the
\* status of the HTTPException they raise, 0 where they pass
SourceCheck(record) ==
    IF record = None THEN 404
    ELSE IF record.file_type # "docx" THEN 400
    ELSE IF record.file_path \notin disk THEN 404
    ELSE 0

\* POST /api/file_upload: the file is saved under uploads/ with a unique
\* name, then its record is created
UploadFile(extension, saved, inserted) ==
    /\ clock < MaxCreates
    /\ Route("POST", <<"file_upload">>) = "upload_file"
    /\ clock' = clock + 1
    /\ LET filename == generate_unique_filename("input", NewUuid, extension)
           file_path == <<"uploads", filename>>
           record == [filename |-> filename, file_path |-> file_path,
                      file_type |-> get_file_type(filename), status |-> "uploaded"]
       IN  IF extension \notin ALLOWED_EXTENSIONS
           THEN /\ lastResponse' = HttpResponse("upload_file", "", 400, "", TRUE)
                /\ UNCHANGED <<files, disk, acked>>
           ELSE IF ~saved
           THEN /\ lastResponse' = HttpResponse("upload_file", "", 500, "", TRUE)
                /\ UNCHANGED <<files, disk, acked>>
           ELSE /\ disk' = disk \cup {file_path}
                /\ IF inserted
                   THEN /\ files' = Put(files, NewId, record)
                        /\ acked' = [acked EXCEPT !.uploaded = @ \cup {NewId}]
                        /\ lastResponse' = HttpResponse("upload_file", "", 201, NewId, TRUE)
                   ELSE /\ lastResponse' = HttpResponse("upload_file", "", 500, "", TRUE)
                        /\ UNCHANGED <<files, acked>>
    /\ UNCHANGED <<textVars, pipelineVars, concatVars, sectionVars>>

\* POST /api/convert_docx_to_pdf: LibreOffice writes the pdf under outputs/,
\* it is renamed to a unique name, then its record is created
ConvertDocxToPdf(file_id, db_ok, converted, inserted) ==
    /\ clock < MaxCreates
    /\ Route("POST", <<"convert_docx_to_pdf">>) = "convert_docx_to_pdf_api"
    /\ clock' = clock + 1
    /\ LET original_file == get_file_by_id(file_id, db_ok)
           pdf_filename == generate_unique_filename("input", NewUuid, ".pdf")
           pdf_file_path == <<"outputs", pdf_filename>>
           record == [filename |-> pdf_filename, file_path |-> pdf_file_path,
                      file_type |-> "pdf", status |-> "converted"]
       IN  IF SourceCheck(original_file) # 0
           THEN /\ lastResponse' = HttpResponse("convert_docx_to_pdf_api", "",
                                                SourceCheck(original_file), "", TRUE)
                /\ UNCHANGED <<files, disk>>
           ELSE IF ~converted
           THEN /\ lastResponse' = HttpResponse("convert_docx_to_pdf_api", "", 500, "", TRUE)
                /\ UNCHANGED <<files, disk>>
           ELSE /\ disk' = disk \cup {pdf_file_path}
                /\ IF inserted
                   THEN /\ files' = Put(files, NewId, record)
                        /\ lastResponse' = HttpResponse("convert_docx_to_pdf_api", "", 201, NewId, TRUE)
                   ELSE /\ lastResponse' = HttpResponse("convert_docx_to_pdf_api", "", 500, "", TRUE)
                        /\ files' = files
    /\ UNCHANGED <<acked, textVars, pipelineVars, concatVars, sectionVars>>

\* POST /api/files/convert_to_audio, as far as records and files go: the
\* track is exported under audio_files/ with a unique name, then its record
\* is created.  outcome is how the synthesis went (Spec follows it turn by
\* turn).
ConvertToAudio(file_id, db_ok, outcome) ==
    /\ clock < MaxCreates
    /\ Route("POST", <<"files", "convert_to_audio">>) = "convert_docx_to_audio"
    /\ clock' = clock + 1
    /\ LET file_model == get_file_by_id(file_id, db_ok)
           audio_filename == <<"input", "_", NewUuid, ".mp3">>
           audio_path == <<"audio_files", audio_filename>>
           record == [filename |-> audio_filename, file_path |-> audio_path,
                      file_type |-> "mp3", status |-> "converted"]
       IN  IF SourceCheck(file_model) # 0
           THEN /\ lastResponse' = HttpResponse("convert_docx_to_audio", "",
                                                SourceCheck(file_model), "", TRUE)
                /\ UNCHANGED <<files, disk>>
           ELSE IF outcome = "no dialogue"
           THEN /\ lastResponse' = HttpResponse("convert_docx_to_audio", "", 400, "", TRUE)
                /\ UNCHANGED <<files, disk>>
           ELSE IF outcome = "synthesis failed"
           THEN /\ lastResponse' = HttpResponse("convert_docx_to_audio", "", 500, "", TRUE)
                /\ UNCHANGED <<files, disk>>
           ELSE /\ disk' = disk \cup {audio_path}
                /\ IF outcome = "track"
                   THEN /\ files' = Put(files, NewId, record)
                        /\ lastResponse' = HttpResponse("convert_docx_to_audio", "", 200,
                                                        NewId, TRUE)
                   ELSE /\ lastResponse' = HttpResponse("convert_docx_to_audio", "", 500,
                                                        "", TRUE)
                        /\ files' = files
    /\ UNCHANGED <<acked, textVars, pipelineVars, concatVars, sectionVars>>

AudioOutcomes == {"no dialogue", "synthesis failed", "no record", "track"}

\* two week keys of thirteen characters that differ in the last
LongKey(last) == [i \in 1..12 |-> "k"] \o <<last>>
WeekKeys == { LongKey("1"), LongKey("2") }
\* an expected file name without and with its extension
ExpectedNames == { <<"r", "A">>, <<"r", "A", ".docx">> }
\* a field left out of the request, which the handler tests as it tests an
\* empty one
Unset == <<>>
WeeklyReportRequests ==
    [file_ids : {Unset, <<IdNames[1]>>},
     week_key : {Unset} \cup WeekKeys,
     expected_filename : {Unset} \cup ExpectedNames]

WeeklyOutcomes == {"all files empty", "DeepSeek failed", "no record", "report"}

\* the hexadecimal digits of an ObjectId: the seconds and the process in the
\* first twelve (the ids here are of one process within one second), the
\* counter after them
ObjectIdHex(file_id) == [i \in 1..12 |-> "0"] \o <<file_id>>

\* lines 770-785: the expected name with .docx, else the prefix and the week
\* key or the file id, cut to 15 characters, with .docx
WeeklyReportFilename(file_id, request) ==
    IF request.expected_filename # Unset
    THEN IF request.expected_filename[Len(request.expected_filename)] = ".docx"
         THEN request.expected_filename
         ELSE request.expected_filename \o <<".docx">>
    ELSE LET base_filename ==
                 <<"zhou", "bao", "_">>
                 \o (IF request.week_key # Unset THEN request.week_key
                     ELSE ObjectIdHex(file_id))
         IN  (IF Len(base_filename) > 15 THEN SubSeq(base_filename, 1, 15)
              ELSE base_filename) \o <<".docx">>

\* the loop of lines 705-731 from the k-th id on: the status of the
\* HTTPException it raises, 0 where it goes through
RECURSIVE WeeklySourcesCheck(_, _, _)
WeeklySourcesCheck(file_ids, k, db_ok) ==
    IF k > Len(file_ids) THEN 0
    ELSE LET file_model == get_file_by_id(file_ids[k], db_ok)
         IN  IF file_model = None THEN 404
             ELSE IF file_model.file_path \notin disk THEN 404
             ELSE IF file_model.file_type # "docx" THEN 400
             ELSE WeeklySourcesCheck(file_ids, k + 1, db_ok)

\* POST /api/files/generate_weekly_report/{file_id}: the files are read,
\* the model writes the report, it is written under outputs/ with the name
\* asked for, then its record is created; outcome says how far it gets
GenerateWeeklyReport(file_id, request, db_ok, outcome) ==
    /\ clock < MaxCreates
    /\ Route("POST", <<"files", "generate_weekly_report", file_id>>)
           = "generate_weekly_report"
    /\ clock' = clock + 1
    /\ LET file_ids == IF request.file_ids # Unset THEN request.file_ids ELSE <<file_id>>
           checked == WeeklySourcesCheck(file_ids, 1, db_ok)
           weekly_report_filename == WeeklyReportFilename(file_id, request)
           weekly_report_path == <<"outputs", weekly_report_filename>>
           record == [filename |-> weekly_report_filename,
                      file_path |-> weekly_report_path,
                      file_type |-> "docx", status |-> "weekreport"]
       IN  IF checked # 0
           THEN /\ lastResponse' = HttpResponse("generate_weekly_report", "", checked, "", TRUE)
                /\ UNCHANGED <<files, disk>>
           ELSE IF outcome = "all files empty"
           THEN /\ lastResponse' = HttpResponse("generate_weekly_report", "", 400, "", TRUE)
                /\ UNCHANGED <<files, disk>>
           ELSE IF outcome = "DeepSeek failed"
           THEN /\ lastResponse' = HttpResponse("generate_weekly_report", "", 500, "", TRUE)
                /\ UNCHANGED <<files, disk>>
           ELSE /\ disk' = disk \cup {weekly_report_path}
                /\ IF outcome = "report"
                   THEN /\ files' = Put(files, NewId, record)
                        /\ lastResponse' = HttpResponse("generate_weekly_report", "", 200, NewId, TRUE)
                   ELSE /\ lastResponse' = HttpResponse("generate_weekly_report", "", 500, "", TRUE)
                        /\ files' = files
    /\ UNCHANGED <<acked, textVars, pipelineVars, concatVars, sectionVars>>

\* DELETE /api/files/{file_id}: the local file is removed, whatever
\* cleanup_file returns the record is deleted next; deleted says whether
\* database.delete_file went through
DeleteFile(file_id, db_ok, removed, deleted) ==
    /\ Route("DELETE", <<"files", file_id>>) = "delete_file"
    /\ LET file_model == get_file_by_id(file_id, db_ok)
       IN  IF file_model = None
           THEN /\ lastResponse' = HttpResponse("delete_file", file_id, 404, "no file", db_ok)
                /\ UNCHANGED <<files, disk, acked>>
           ELSE /\ disk' = cleanup_file(disk, file_model.file_path, removed)
                /\ IF deleted
                   THEN /\ files' = Remove(files, {file_id})
                        /\ acked' = [acked EXCEPT
                                        !.deleted = @ \cup {[id |-> file_id,
                                                             file_path |-> file_model.file_path]}]
                        /\ lastResponse' = HttpResponse("delete_file", file_id, 200,
                                                        "deleted", db_ok)
                   ELSE /\ lastResponse' = HttpResponse("delete_file", file_id, 500,
                                                        "record not deleted", FALSE)
                        /\ UNCHANGED <<files, acked>>
    /\ UNCHANGED <<clock, textVars, pipelineVars, concatVars, sectionVars>>

\* the records with the status weekreport
WeekReports == { id \in DOMAIN files : files[id].status = "weekreport" }

\* GET /api/<path>: the request goes to the endpoint of the first route
\* that matches
Get(path, db_ok) ==
    /\ LET endpoint == Route("GET", path)
       IN  CASE endpoint = "get_file" ->
                   LET file_model == get_file_by_id(path[2], db_ok)
                   IN  lastResponse' =
                           IF file_model = None
                           THEN HttpResponse("get_file", path[2], 404, "no file", db_ok)
                           ELSE HttpResponse("get_file", path[2], 200,
                                             FileResponse(path[2], file_model), db_ok)
             [] endpoint = "get_generated_reports" ->
                   lastResponse' =
                       IF db_ok
                       THEN HttpResponse("get_generated_reports", "", 200, WeekReports, db_ok)
                       ELSE HttpResponse("get_generated_reports", "", 500, "failed", db_ok)
             [] endpoint = "get_files" ->
                   lastResponse' =
                       HttpResponse("get_files", "", 200,
                                    IF db_ok THEN DOMAIN files ELSE {}, db_ok)
             [] OTHER -> lastResponse' = HttpResponse(endpoint, "", 404, "not found", db_ok)
    /\ UNCHANGED <<files, disk, clock, acked, textVars, pipelineVars, concatVars,
                   sectionVars>>

GetPaths ==
    { <<"files">>, <<"files", "generated_reports">> }
    \cup { <<"files", file_id>> : file_id \in FileIdPaths }

InitStore ==
    /\ files = EmptyFs
    /\ disk = {}
    /\ clock = 0
    /\ acked = [uploaded |-> {}, deleted |-> {}]
    /\ lastResponse = HttpResponse("", "", 0, "", TRUE)
    /\ DialogueIdle
    /\ DateIdle
    /\ MarkdownIdle
    /\ ReportIdle
    /\ PipelineIdle
    /\ ConcatIdle
    /\ SectionIdle

NextStore ==
    \/ \E extension \in ALLOWED_EXTENSIONS \cup {".txt"} :
           \E saved \in BOOLEAN, inserted \in BOOLEAN :
               UploadFile(extension, saved, inserted)
    \/ \E file_id \in FileIdPaths : \E db_ok \in BOOLEAN :
           \E converted \in BOOLEAN, inserted \in BOOLEAN :
               ConvertDocxToPdf(file_id, db_ok, converted, inserted)
    \/ \E file_id \in FileIdPaths : \E db_ok \in BOOLEAN : \E outcome \in AudioOutcomes :
           ConvertToAudio(file_id, db_ok, outcome)
    \/ \E file_id \in FileIdPaths : \E request \in WeeklyReportRequests :
           \E db_ok \in BOOLEAN : \E outcome \in WeeklyOutcomes :
               GenerateWeeklyReport(file_id, request, db_ok, outcome)
    \/ \E file_id \in FileIdPaths : \E db_ok \in BOOLEAN :
           \E removed \in BOOLEAN, deleted \in BOOLEAN :
               DeleteFile(file_id, db_ok, removed, deleted)
    \/ \E path \in GetPaths : \E db_ok \in BOOLEAN : Get(path, db_ok)

SpecStore == InitStore /\ [][NextStore]_vars

\* the uploaded file of this id has been deleted with a success response
DeletedOk(id) == \E d \in acked.deleted : d.id = id

\* C23: after upload_file has succeeded and returned an id, get_file(id)
\* returns the record of that file with status 200 until a delete_file(id)
\* succeeds; once delete_file(id) has succeeded the record and the local
\* file are gone and get_file(id) returns 404.
C23_UploadedFileLifecycle ==
    \A id \in acked.uploaded :
        /\ DeletedOk(id) =>
               /\ id \notin DOMAIN files
               /\ \A d \in acked.deleted : d.id = id => d.file_path \notin disk
        /\ (lastResponse.endpoint = "get_file" /\ lastResponse.file_id = id) =>
               IF DeletedOk(id)
               THEN lastResponse.status = 404
               ELSE /\ lastResponse.status = 200
                    /\ id \in DOMAIN files
                    /\ lastResponse.body = FileResponse(id, files[id])

\* C28: after any sequence of upload_file, convert_docx_to_pdf,
\* convert_docx_to_audio, generate_weekly_report and delete_file calls,
\* failed ones included, every record refers to a file that is on disk.
C28_EveryRecordHasItsFile ==
    \A id \in DOMAIN files : files[id].file_path \in disk

\* C29: no two records have the same file_path, two weekly reports asked
\* for with the same expected_filename or week_key included.
C29_NoTwoRecordsShareAPath ==
    \A a \in DOMAIN files : \A b \in DOMAIN files :
        a # b => files[a].file_path # files[b].file_path

\* C30: a GET of /api/files/generated_reports is answered by
\* get_generated_reports with the weekreport records, never by get_file
\* with "generated_reports" as its file_id.
C30_GeneratedReportsReached ==
    /\ ~(lastResponse.endpoint = "get_file"
         /\ lastResponse.file_id = "generated_reports")
    /\ (lastResponse.endpoint = "get_generated_reports" /\ lastResponse.status = 200)
           => lastResponse.body = WeekReports

=============================================================================
